---------------------------- MODULE Spec2Model ----------------------------
(***************************************************************************)
(* A model of xmastree.py, the reverse-xmas-tree declaration checker.      *)
(*                                                                         *)
(* Text is modelled as a sequence of one-character strings, so that the    *)
(* string operations of the source (startswith, partition, count, strip,   *)
(* `in`, the regular expression location_re) are computed character by     *)
(* character as Python computes them.  A line is the text readlines()      *)
(* yields: the content followed by its "\n", or the content alone for the  *)
(* last line of an input that does not end in a newline.                   *)
(***************************************************************************)
EXTENDS Integers, Sequences, FiniteSets, TLC

(***************************************************************************)
(* Bounds of the model.                                                    *)
(***************************************************************************)
\* Number of lines read from one input.
MaxLines == 5
\* Number of files named on the command line (SpecRun).
MaxFiles == 3

(***************************************************************************)
(* Constants of the program.                                               *)
(***************************************************************************)
\* The longest digit text int() converts (sys.get_int_max_str_digits());
\* int() raises ValueError on a longer one.
int_max_str_digits == 4300

(***************************************************************************)
(* Python's str operations on character sequences.                         *)
(***************************************************************************)
\* The characters str.strip() removes: the ASCII ones, then U+000B, U+001C to
\* U+001F, U+0085, U+00A0 and U+1680.  (str.strip() also removes U+2000 to
\* U+200A, U+2028, U+2029, U+202F, U+205F and U+3000, which no TLA+ string
\* can hold.)
whitespace ==
    {" ", "\t", "\n", "\r", "\f",
     "", "", "", "", "", "", " ", " "}

\* Python None, the empty tuple standing for it.
None == <<>>

\* Python False as the value of in_function / in_struct.  The only other
\* values these hold are stripped descriptors, which are never empty, so the
\* empty text stands for False and the truth value is "differs from False".
False == <<>>

\* The decimal digits (Unicode category Nd) a TLA+ string can hold, one row
\* for each script, each row in the order of its values 0 to 9.
decimal_digits ==
    << <<"0", "1", "2", "3", "4", "5", "6", "7", "8", "9">>,
       <<"۰", "۱", "۲", "۳", "۴", "۵", "۶", "۷", "۸", "۹">>,
       <<"߀", "߁", "߂", "߃", "߄", "߅", "߆", "߇", "߈", "߉">>,
       <<"০", "১", "২", "৩", "৪", "৫", "৬", "৭", "৮", "৯">>,
       <<"૦", "૧", "૨", "૩", "૪", "૫", "૬", "૭", "૮", "૯">>,
       <<"௦", "௧", "௨", "௩", "௪", "௫", "௬", "௭", "௮", "௯">>,
       <<"೦", "೧", "೨", "೩", "೪", "೫", "೬", "೭", "೮", "೯">>,
       <<"෦", "෧", "෨", "෩", "෪", "෫", "෬", "෭", "෮", "෯">>,
       <<"໐", "໑", "໒", "໓", "໔", "໕", "໖", "໗", "໘", "໙">>,
       <<"႐", "႑", "႒", "႓", "႔", "႕", "႖", "႗", "႘", "႙">>,
       <<"០", "១", "២", "៣", "៤", "៥", "៦", "៧", "៨", "៩">>,
       <<"᧐", "᧑", "᧒", "᧓", "᧔", "᧕", "᧖", "᧗", "᧘", "᧙">>,
       <<"᪀", "᪁", "᪂", "᪃", "᪄", "᪅", "᪆", "᪇", "᪈", "᪉">>,
       <<"᪐", "᪑", "᪒", "᪓", "᪔", "᪕", "᪖", "᪗", "᪘", "᪙">>,
       <<"᮰", "᮱", "᮲", "᮳", "᮴", "᮵", "᮶", "᮷", "᮸", "᮹">>,
       <<"꣐", "꣑", "꣒", "꣓", "꣔", "꣕", "꣖", "꣗", "꣘", "꣙">>,
       <<"꧐", "꧑", "꧒", "꧓", "꧔", "꧕", "꧖", "꧗", "꧘", "꧙">>,
       <<"꧰", "꧱", "꧲", "꧳", "꧴", "꧵", "꧶", "꧷", "꧸", "꧹">>,
       <<"꯰", "꯱", "꯲", "꯳", "꯴", "꯵", "꯶", "꯷", "꯸", "꯹">> >>

\* The value of each decimal digit.
digit_value ==
    [c \in {decimal_digits[r][k] : r \in 1..Len(decimal_digits), k \in 1..10} |->
        CHOOSE v \in 0..9 : \E r \in 1..Len(decimal_digits) : decimal_digits[r][v + 1] = c]

\* The characters that are decimal digits.
Nd == DOMAIN digit_value

\* What \d matches in a str pattern: any decimal digit.
IsDigit(c) == c \in Nd

\* int() of one digit.
DigitVal(c) == digit_value[c]

\* s[i:] with i counted from 1.
From(s, i) == SubSeq(s, i, Len(s))

\* s.startswith(p)
startswith(s, p) == Len(s) >= Len(p) /\ SubSeq(s, 1, Len(p)) = p

\* s.find(p), counted from 1; 0 when p does not occur.
find(s, p) ==
    LET hits == {i \in 1..(Len(s) - Len(p) + 1) :
                    /\ p = <<>> \/ s[i] = p[1]
                    /\ SubSeq(s, i, i + Len(p) - 1) = p}
    IN  IF hits = {} THEN 0 ELSE CHOOSE i \in hits : \A j \in hits : i <= j

\* p in s
contains(s, p) == find(s, p) # 0

RECURSIVE count(_, _)
\* s.count(p): the number of non-overlapping occurrences of p.
count(s, p) ==
    LET i == find(s, p)
    IN  IF i = 0 THEN 0 ELSE 1 + count(From(s, i + Len(p)), p)

\* s.partition(sep): <<before, sep, after>>, or <<s, '', ''>> without sep.
partition(s, sep) ==
    LET i == find(s, sep)
    IN  IF i = 0 THEN <<s, <<>>, <<>>>>
        ELSE <<SubSeq(s, 1, i - 1), sep, From(s, i + Len(sep))>>

RECURSIVE lstrip(_)
lstrip(s) == IF s # <<>> /\ Head(s) \in whitespace THEN lstrip(Tail(s)) ELSE s

RECURSIVE rstrip(_)
rstrip(s) ==
    IF s # <<>> /\ s[Len(s)] \in whitespace THEN rstrip(SubSeq(s, 1, Len(s) - 1))
    ELSE s

\* s.strip()
strip(s) == rstrip(lstrip(s))

(***************************************************************************)
(* Python's int.  A Python int has no width, so a number that is not       *)
(* negative is held as the values of its decimal digits, the most          *)
(* significant first and never 0; the number 0 is the empty sequence.      *)
(***************************************************************************)
Zero == <<>>

\* -1, the only negative number an operation here can give.
MinusOne == << -1 >>

\* The least number of a set of numbers that is not empty.
Min(S) == CHOOSE i \in S : \A j \in S : i <= j

\* The digits d without their leading zeros.
normalise(d) ==
    LET nonzero == {i \in 1..Len(d) : d[i] # 0}
    IN  IF nonzero = {} THEN Zero ELSE SubSeq(d, Min(nonzero), Len(d))

\* The position of the last digit of a that is not v, 0 if there is none.
LastNot(a, v) ==
    LET back == {Len(a) - i : i \in {j \in 1..Len(a) : a[j] # v}}
    IN  IF back = {} THEN 0 ELSE Len(a) - Min(back)

\* a + 1
add1(a) ==
    IF a = MinusOne THEN Zero
    ELSE IF a # Zero /\ a[Len(a)] < 9 THEN [a EXCEPT ![Len(a)] = @ + 1]
    ELSE LET k == LastNot(a, 9)
         IN  IF k = 0 THEN <<1>> \o [i \in 1..Len(a) |-> 0]
             ELSE [i \in 1..Len(a) |-> IF i < k THEN a[i]
                                       ELSE IF i = k THEN a[i] + 1 ELSE 0]

\* a - 1
sub1(a) ==
    IF a = Zero THEN MinusOne
    ELSE IF Len(a) > 1 /\ a[Len(a)] > 0 THEN [a EXCEPT ![Len(a)] = @ - 1]
    ELSE LET k == LastNot(a, 0)
         IN  normalise([i \in 1..Len(a) |-> IF i < k THEN a[i]
                                            ELSE IF i = k THEN a[i] - 1 ELSE 9])

\* int(s) raises ValueError, for a text of decimal digits.
int_raises(s) == Len(s) > int_max_str_digits

\* int(s) for a text of decimal digits on which it does not raise.
int(s) == normalise([i \in 1..Len(s) |-> DigitVal(s[i])])

(***************************************************************************)
(* location_re = re.compile(r'-\d+,\d+ \+(\d+),\d+')                       *)
(***************************************************************************)
\* The character at position i, or "" past either end.
At(s, i) == IF i >= 1 /\ i <= Len(s) THEN s[i] ELSE ""

\* Every character of s from lo to hi is a digit.
AllDigits(s, lo, hi) == lo >= 1 /\ hi <= Len(s) /\ \A k \in lo..hi : IsDigit(s[k])

RECURSIVE DigitsEnd(_, _)
\* The position after the longest run of digits that starts at i (\d+ is
\* greedy, and what follows it in the pattern is never a digit, so only the
\* longest run can match).  A stretch of 64 digits is passed in one step, so
\* that a run of thousands of digits is not a recursion thousands deep.
DigitsEnd(s, i) ==
    IF AllDigits(s, i, i + 63) THEN DigitsEnd(s, i + 64)
    ELSE IF IsDigit(At(s, i)) THEN DigitsEnd(s, i + 1)
    ELSE i

\* The rest of the pattern after the group: `,\d+`.  The group is s[g..c-1].
MatchAfterGroup(s, g, c) ==
    IF c > g /\ At(s, c) = "," /\ IsDigit(At(s, c + 1)) THEN SubSeq(s, g, c - 1)
    ELSE None

\* The rest of the pattern after `-\d+,\d+`, which ends before b.
MatchNew(s, a, b) ==
    IF b > a + 1 /\ At(s, b) = " " /\ At(s, b + 1) = "+"
    THEN MatchAfterGroup(s, b + 2, DigitsEnd(s, b + 2))
    ELSE None

\* The rest of the pattern after `-\d+`, which ends before a.
MatchOld(s, i, a) ==
    IF At(s, i) = "-" /\ a > i + 1 /\ At(s, a) = ","
    THEN MatchNew(s, a, DigitsEnd(s, a + 1))
    ELSE None

\* The text of group 1 when the pattern matches at position i, else None.
MatchAt(s, i) == MatchOld(s, i, DigitsEnd(s, i + 1))

\* location_re.search(s): group 1 of the leftmost match, or None.
location_re(s) ==
    LET hits == {i \in 1..Len(s) : s[i] = "-" /\ MatchAt(s, i) # None}
    IN  IF hits = {} THEN None ELSE MatchAt(s, Min(hits))

(***************************************************************************)
(* The keyword lists and is_decl.                                          *)
(***************************************************************************)
primitive_types ==
    { <<"s","i","g","n","e","d">>, <<"u","n","s","i","g","n","e","d">>,
      <<"c","h","a","r">>, <<"s","h","o","r","t">>, <<"i","n","t">>,
      <<"l","o","n","g">>, <<"s","i","z","e","_","t">>,
      <<"i","n","t","p","t","r","_","t">>,
      <<"u","i","n","t","p","t","r","_","t">>, <<"v","o","i","d">>,
      <<"b","o","o","l">>, <<"f","l","o","a","t">>,
      <<"d","o","u","b","l","e">>, <<"s","t","r","u","c","t">>,
      <<"u","n","i","o","n">>, <<"e","n","u","m">> }

kernel_typedefs ==
    { <<"u","8">>, <<"u","1","6">>, <<"u","3","2">>, <<"u","6","4">>,
      <<"s","8">>, <<"s","1","6">>, <<"s","3","2">>, <<"s","6","4">>,
      <<"c","p","u","m","a","s","k","_","v","a","r","_","t">> }

storage_classes ==
    { <<"a","u","t","o">>, <<"s","t","a","t","i","c">>,
      <<"r","e","g","i","s","t","e","r">>, <<"e","x","t","e","r","n">> }

type_qualifiers ==
    { <<"c","o","n","s","t">>, <<"v","o","l","a","t","i","l","e">>,
      <<"r","e","s","t","r","i","c","t">> }

decl_openers ==
    primitive_types \cup kernel_typedefs \cup storage_classes \cup type_qualifiers

\* word, _, _ = line.partition(' '): the text before the first space.
first_word(line) == partition(line, <<" ">>)[1]

is_decl(line) == first_word(line) \in decl_openers


(***************************************************************************)
(* The body of the loop of check_file, one operator per stretch of it.     *)
(* A state of the scan is the record of check_file's local variables:      *)
(*   li, in_comment, in_struct, in_function, is_diff, last_decl, viols.    *)
(* last_decl is None or the pair <<text, plus>>; a violation is the triple *)
(* <<retained text, current text, li>>.                                    *)
(***************************************************************************)
\* hunk_header without `in_comment = False`: a comment left open by the hunk
\* before would go on.
hunk_header_keeps_comment(r, line) ==
    LET p        == partition(From(line, 3), <<"@", "@">>)
        location == p[1]
        context  == p[3]
        m        == location_re(location)
        isfunc   == contains(context, <<":">>) \/ contains(context, <<"(">>)
        isstruct == \/ contains(context, <<"s","t","r","u","c","t">>)
                    \/ contains(context, <<"e","n","u","m">>)
                    \/ contains(context, <<"u","n","i","o","n">>)
    IN  [r EXCEPT !.is_diff     = TRUE,
                  !.li          = IF m # None THEN int(m) ELSE @,
                  !.in_function = IF isfunc THEN strip(context) ELSE False,
                  !.in_struct   = IF ~isfunc /\ isstruct THEN strip(context)
                                  ELSE False]

\* hunk_header that takes the start for 0 when the range pattern does not
\* match.
hunk_header_reseeds(r, line) ==
    LET p        == partition(From(line, 3), <<"@", "@">>)
        location == p[1]
        context  == p[3]
        m        == location_re(location)
        isfunc   == contains(context, <<":">>) \/ contains(context, <<"(">>)
        isstruct == \/ contains(context, <<"s","t","r","u","c","t">>)
                    \/ contains(context, <<"e","n","u","m">>)
                    \/ contains(context, <<"u","n","i","o","n">>)
    IN  [r EXCEPT !.is_diff     = TRUE,
                  !.li          = IF m # None THEN int(m) ELSE Zero,
                  !.in_comment  = FALSE,
                  !.in_function = IF isfunc THEN strip(context) ELSE False,
                  !.in_struct   = IF ~isfunc /\ isstruct THEN strip(context)
                                  ELSE False]

\* if line.startswith('@@'): the hunk header sets the diff flag, re-seeds li
\* when the range pattern matches, and resets the context from its trailing
\* text.
hunk_header(r, line) ==
    LET p        == partition(From(line, 3), <<"@", "@">>)
        location == p[1]
        context  == p[3]
        m        == location_re(location)
        isfunc   == contains(context, <<":">>) \/ contains(context, <<"(">>)
        isstruct == \/ contains(context, <<"s","t","r","u","c","t">>)
                    \/ contains(context, <<"e","n","u","m">>)
                    \/ contains(context, <<"u","n","i","o","n">>)
    IN  [r EXCEPT !.is_diff     = TRUE,
                  !.li          = IF m # None THEN int(m) ELSE @,
                  !.in_comment  = FALSE,
                  !.in_function = IF isfunc THEN strip(context) ELSE False,
                  !.in_struct   = IF ~isfunc /\ isstruct THEN strip(context)
                                  ELSE False]

\* The hunk header is left by the ValueError of line 64: the range pattern
\* matches and int() raises on the new-file start.  (The start is part of
\* the text before the second '@@': when that text is no longer than the
\* limit, int() does not raise.)
hunk_header_raises(line) ==
    LET location == partition(From(line, 3), <<"@", "@">>)[1]
        m        == location_re(location)
    IN  /\ Len(location) > int_max_str_digits
        /\ m # None
        /\ int_raises(m)

\* removed_line without the decrement: a removed line would be counted.
removed_line_counted(r) == r

\* if line.startswith('-'): li -= 1; continue
removed_line(r) == [r EXCEPT !.li = sub1(@)]

\* plus = line[0] == '+', for a line that starts with '+' or ' '.
plus_of(line) == startswith(line, <<"+">>)

\* line = line[1:], for a line that starts with '+' or ' '.
strip_marker(line) ==
    IF startswith(line, <<"+">>) \/ startswith(line, <<" ">>) THEN Tail(line)
    ELSE line

\* comment_state without memory: only the line that opens a comment would be
\* in it.
comment_state_forget(in_comment, line) ==
    count(line, <<"/", "*">>) > count(line, <<"*", "/">>)

\* The comment flag after the counts of '/*' and '*/' on the line.
comment_state(in_comment, line) ==
    LET co == count(line, <<"/", "*">>)
        cc == count(line, <<"*", "/">>)
    IN  IF cc > co THEN FALSE
        ELSE IF co > cc THEN TRUE
        ELSE in_comment

\* if line.startswith('}'): the unindented closing brace ends every context.
end_of_block(r, line) ==
    IF startswith(line, <<"}">>)
    THEN [r EXCEPT !.in_struct = False, !.in_function = False,
                   !.in_comment = FALSE]
    ELSE r

\* unindented without `in_function = False`: a struct opened inside a
\* function would leave the function context set.
unindented_keeps_function(r, line) ==
    IF startswith(line, <<"{">>)
    THEN [r EXCEPT !.in_struct = False, !.in_function = strip(line),
                   !.last_decl = None]
    ELSE IF contains(line, <<"{">>)
    THEN [r EXCEPT !.in_struct = strip(line)]
    ELSE [r EXCEPT !.in_function = False, !.in_struct = False]

\* unindented without `last_decl = None`: an opening brace would leave the
\* declaration retained before it.
unindented_keeps_slot(r, line) ==
    IF startswith(line, <<"{">>)
    THEN [r EXCEPT !.in_struct = False, !.in_function = strip(line)]
    ELSE IF contains(line, <<"{">>)
    THEN [r EXCEPT !.in_function = False, !.in_struct = strip(line)]
    ELSE [r EXCEPT !.in_function = False, !.in_struct = False]

\* unindented without `in_struct = False`: an opening brace after a struct
\* would leave the struct context set.
unindented_keeps_struct(r, line) ==
    IF startswith(line, <<"{">>)
    THEN [r EXCEPT !.in_function = strip(line), !.last_decl = None]
    ELSE IF contains(line, <<"{">>)
    THEN [r EXCEPT !.in_function = False, !.in_struct = strip(line)]
    ELSE [r EXCEPT !.in_function = False, !.in_struct = False]

\* if not line.startswith('\t'): the line is outside every body; look for
\* the start of a block.
unindented(r, line) ==
    IF startswith(line, <<"{">>)
    THEN [r EXCEPT !.in_struct = False, !.in_function = strip(line),
                   !.last_decl = None]
    ELSE IF contains(line, <<"{">>)
    THEN [r EXCEPT !.in_function = False, !.in_struct = strip(line)]
    ELSE [r EXCEPT !.in_function = False, !.in_struct = False]

\* eligible without the diff rule: every pair would be compared.
eligible_always(plus, last_decl, is_diff) == TRUE

\* plus or last_decl[1] or not is_diff
eligible(plus, last_decl, is_diff) == plus \/ last_decl[2] \/ ~is_diff

\* detector with >= for >: equal lengths would be flagged.
detector_ge(r, line, plus) ==
    IF is_decl(line) /\ r.in_function # False
    THEN LET flagged == /\ r.last_decl # None
                        /\ eligible(plus, r.last_decl, r.is_diff)
                        /\ Len(line) >= Len(r.last_decl[1])
         IN  [r EXCEPT !.viols = IF flagged
                                 THEN Append(@, <<r.last_decl[1], line, r.li>>)
                                 ELSE @,
                       !.last_decl = <<line, plus>>]
    ELSE IF line # <<>>
    THEN [r EXCEPT !.last_decl = None]
    ELSE r

\* detector that retains the first declaration of a run instead of the last:
\* every declaration would be compared with the head of the run.
detector_keeps_first(r, line, plus) ==
    IF is_decl(line) /\ r.in_function # False
    THEN LET flagged == /\ r.last_decl # None
                        /\ eligible(plus, r.last_decl, r.is_diff)
                        /\ Len(line) > Len(r.last_decl[1])
         IN  [r EXCEPT !.viols = IF flagged
                                 THEN Append(@, <<r.last_decl[1], line, r.li>>)
                                 ELSE @,
                       !.last_decl = IF @ = None THEN <<line, plus>> ELSE @]
    ELSE IF line # <<>>
    THEN [r EXCEPT !.last_decl = None]
    ELSE r

\* The declaration-order check on the stripped line.
detector(r, line, plus) ==
    IF is_decl(line) /\ r.in_function # False
    THEN LET flagged == /\ r.last_decl # None
                        /\ eligible(plus, r.last_decl, r.is_diff)
                        /\ Len(line) > Len(r.last_decl[1])
         IN  [r EXCEPT !.viols = IF flagged
                                 THEN Append(@, <<r.last_decl[1], line, r.li>>)
                                 ELSE @,
                       !.last_decl = <<line, plus>>]
    ELSE IF line # <<>>
    THEN [r EXCEPT !.last_decl = None]
    ELSE r

\* One iteration of `for line in f.readlines()`: the locals after it, and in
\* `path` the place where the iteration ended (the `continue` it took, the
\* detector at the end of the body, or the ValueError that int() raised).
loop_body(r, raw) ==
    LET r1   == [r EXCEPT !.li = add1(@)]
        r2   == IF startswith(raw, <<"@", "@">>) THEN hunk_header(r1, raw) ELSE r1
        plus == plus_of(raw)
        line == strip_marker(raw)
        r3   == [r2 EXCEPT !.in_comment = comment_state(@, line)]
        r4   == end_of_block(r3, line)
    IN  IF startswith(raw, <<"@", "@">>) /\ hunk_header_raises(raw)
        THEN [locals |-> [r1 EXCEPT !.is_diff = TRUE], path |-> "raise"]
        ELSE IF startswith(raw, <<"-">>)
        THEN [locals |-> removed_line(r2), path |-> "removed"]
        ELSE IF r3.in_comment
        THEN [locals |-> r3, path |-> "comment"]
        ELSE IF startswith(strip(line), <<"/", "*">>)
        THEN [locals |-> r3, path |-> "comment_line"]
        ELSE IF startswith(line, <<"#">>)
        THEN [locals |-> r3, path |-> "preprocessor"]
        ELSE IF ~startswith(line, <<"\t">>)
        THEN [locals |-> unindented(r4, line), path |-> "unindented"]
        ELSE [locals |-> detector(r4, strip(line), plus), path |-> "detector"]

\* "Line %d" % (li - 1,) raises ValueError when the number has more digits
\* than the limit on the conversion of an int to text.
format_raises(a) == Len(a) > int_max_str_digits

\* report(name, viols): the header line printed, and for each violation the
\* number printed after `Line` and the two texts printed under it.  When the
\* number of a violation cannot be formatted the ValueError ends the script:
\* the violations before it are printed, it and those after it are not.
report(vs) ==
    LET unprintable == {i \in 1..Len(vs) : format_raises(sub1(vs[i][3]))}
        printed     == IF unprintable = {} THEN Len(vs) ELSE Min(unprintable) - 1
    IN  [ warning |-> vs # <<>>,
          entries |-> [i \in 1..printed |-> <<sub1(vs[i][3]), vs[i][1], vs[i][2]>>],
          raised  |-> unprintable # {} ]

(***************************************************************************)
(* The lines the inputs are made of (content, without the "\n").           *)
(***************************************************************************)
INT_X  == <<"i","n","t"," ","x",";">>
LONG_Y == <<"l","o","n","g"," ","l","o","n","g"," ","y",";">>
TAB    == <<"\t">>
RANGE3 == <<"@","@"," ","-","1",",","2"," ","+","3",",","4"," ","@","@">>

\* plain source lines
L_open      == <<"{">>
L_close     == <<"}">>
L_int       == TAB \o INT_X
L_long      == TAB \o LONG_Y
L_stmt      == TAB \o <<"x"," ","="," ","1",";">>
L_tab       == TAB
L_empty     == <<>>
L_cmt       == TAB \o <<"/","*"," ","c"," ","*","/">>
L_cmt_open  == <<"/","*">>
L_cmt_close == TAB \o <<"*","/">>
L_pp        == <<"#","i","f"," ","1">>
L_struct    == <<"s","t","r","u","c","t"," ","s"," ","{">>
L_int0      == INT_X
L_int_tab   == TAB \o <<"i","n","t","\t","x",";">>
\* diff lines: added, context, removed
D_add_int   == <<"+">> \o L_int
D_add_long  == <<"+">> \o L_long
D_ctx_int   == <<" ">> \o L_int
D_ctx_long  == <<" ">> \o L_long
D_del_long  == <<"-">> \o L_long
D_del_cmt   == <<"-","/","*">>
D_ctx_open  == <<" ","{">>
D_ctx_blank == <<" ">>
D_add_long_close == D_add_long \o <<" ","*","/">>
\* hunk headers
H_func      == RANGE3 \o <<" ","f","(">>
H_struct    == RANGE3 \o <<" ","s","t","r","u","c","t"," ","s">>
H_bare      == <<"@","@"," ","-","5",",","2"," ","+","7",",","4"," ","@","@">>
H_nonum     == <<"@","@"," ","@","@"," ","f","(">>
H_func_cmt  == H_func \o <<" ","/","*">>
H_both_cmt  == H_struct \o <<" ","f","("," ","/","*">>
H_big       == <<"@","@"," ","-","1",",","2"," ","+","2","1","4","7","4","8","3","6","4","8",
                 ",","4"," ","@","@"," ","f","(">>
H_too_long  == <<"@","@"," ","-","1",",","2"," ","+">>
               \o [i \in 1..(int_max_str_digits + 1) |-> "1"]
               \o <<",","4"," ","@","@"," ","f","(">>
H_nines     == <<"@","@"," ","-","1",",","2"," ","+">>
               \o [i \in 1..int_max_str_digits |-> "9"]
               \o <<",","4"," ","@","@"," ","f","(">>
H_persian   == <<"@","@"," ","-","1",",","2"," ","+","۳",",","4"," ","@","@">>
L_int_nbsp  == L_int \o <<" ">>

Lines ==
    { L_open, L_close, L_int, L_long, L_stmt, L_tab, L_empty, L_cmt,
      L_cmt_open, L_cmt_close, L_pp, L_struct, L_int0, L_int_tab,
      D_add_int, D_add_long, D_ctx_int, D_ctx_long, D_del_long, D_del_cmt,
      D_ctx_open, D_ctx_blank, D_add_long_close,
      H_func, H_struct, H_bare, H_nonum, H_func_cmt, H_both_cmt, H_persian,
      L_int_nbsp }

\* A line of content c with its newline.
terminated(c) == c \o <<"\n">>

\* What a file opened in text mode hands over: "\r\n" and "\r" read as "\n".
universal_newlines(t) ==
    LET kept == SelectSeq([i \in 1..Len(t) |-> i],
                          LAMBDA i : ~(t[i] = "\n" /\ i > 1 /\ t[i - 1] = "\r"))
    IN  [k \in 1..Len(kept) |-> IF t[kept[k]] = "\r" THEN "\n" ELSE t[kept[k]]]

RECURSIVE split_lines(_)
\* The lines of a text, each with its "\n"; the last one without, when the
\* text does not end in a newline.
split_lines(t) ==
    IF t = <<>> THEN <<>>
    ELSE LET i == find(t, <<"\n">>)
         IN  IF i = 0 THEN <<t>>
             ELSE <<SubSeq(t, 1, i)>> \o split_lines(From(t, i + 1))

\* f.readlines() on the file of text t.
readlines(t) == split_lines(universal_newlines(t))

RECURSIVE Text(_)
\* The text of a file whose lines have the contents ls, each ended by "\n".
Text(ls) == IF ls = <<>> THEN <<>> ELSE terminated(Head(ls)) \o Text(Tail(ls))

(***************************************************************************)
(* Whole files, for the runs that name files on the command line.          *)
(***************************************************************************)
F_empty      == <<>>
F_plain_viol == Text(<<L_open, L_int, L_long>>)
F_plain_ok   == Text(<<L_open, L_long, L_int>>)
F_diff_add   == Text(<<H_func, D_ctx_open, D_ctx_int, D_add_long>>)
F_diff_ctx   == Text(<<H_bare, D_ctx_open, D_ctx_int, D_ctx_long>>)
F_open_cmt   == Text(<<L_open, L_int, L_cmt_open>>)
F_body       == Text(<<L_long, L_stmt>>)
\* A file whose last line has no newline.
F_no_newline == Text(<<L_open, L_int>>) \o L_long
\* A hunk that starts beyond line 2^31 of the new file.
F_big        == Text(<<H_big, D_ctx_open, D_ctx_int, D_add_long>>)
\* A hunk header whose new-file start has more digits than int() converts,
\* after a violation.
F_too_long   == Text(<<L_open, L_int, L_long, H_too_long, L_open>>)

\* A diff whose hunk starts at the greatest number int() accepts: the lines
\* after the header are numbered past it.
F_nines      == Text(<<H_nines, D_ctx_open, D_ctx_int, D_add_long>>)

\* The names of the files, as they are given on the command line.
Files ==
    { "empty.c", "plain_viol.c", "plain_ok.c", "diff_add.patch", "diff_ctx.patch",
      "open_cmt.c", "body.c", "no_newline.c", "big.patch" }

\* The files that end the script with a ValueError: the one with the hunk
\* header int() raises on, the one with a violation whose number report
\* cannot format.
RaisingFiles == { "too_long.patch", "nines.patch" }

\* The command lines that name such a file: alone, before another file,
\* after another file.
RaisingRuns ==
    UNION { {<<r>>} \cup {<<r, fn>> : fn \in Files} \cup {<<fn, r>> : fn \in Files}
            : r \in RaisingFiles }

\* open(fn, 'r', encoding='utf-8'): the text of the file of that name.
open(fn) ==
    CASE fn = "empty.c"        -> F_empty
      [] fn = "plain_viol.c"   -> F_plain_viol
      [] fn = "plain_ok.c"     -> F_plain_ok
      [] fn = "diff_add.patch" -> F_diff_add
      [] fn = "diff_ctx.patch" -> F_diff_ctx
      [] fn = "open_cmt.c"     -> F_open_cmt
      [] fn = "body.c"         -> F_body
      [] fn = "no_newline.c"   -> F_no_newline
      [] fn = "big.patch"      -> F_big
      [] fn = "too_long.patch" -> F_too_long
      [] fn = "nines.patch"    -> F_nines

\* The sequences of at most k elements of S.
RECURSIVE SeqsUpTo(_, _)
SeqsUpTo(S, k) ==
    IF k = 0 THEN {<<>>}
    ELSE LET shorter == SeqsUpTo(S, k - 1)
         IN  shorter \cup {Append(q, x) : q \in shorter, x \in S}

(***************************************************************************)
(* State.                                                                  *)
(***************************************************************************)
VARIABLES
    \* the driver (module level)
    argv,       \* sys.argv[1:], the names of the files; <<>>: stdin
    fidx,       \* how many of the named files have been opened
    f,          \* the lines readlines() gave that are not yet read
    returned,   \* the lists check_file has returned, in order
    out,        \* what report has printed, one record for each input
    pc,         \* "main": at module level; "loop": in check_file's loop;
                \* "exit": the run is over; "raised": the run was ended by
                \* an exception
    \* check_file's locals
    last_decl, in_comment, in_struct, in_function, is_diff, viols, li,
    line,       \* the loop variable: the line read last, as read
    ret,        \* what is_decl returned, when it is called on its own
    \* history, for stating the properties
    n,          \* number of lines read from this input
    path,       \* where the last iteration of the loop ended
    before,     \* the locals, decl_li and newpos before the last iteration
    decl_li,    \* li of the line that last_decl was retained from, 0 if none
    newpos,     \* post-patch number the hunk header gives the next counted
                \* line of the hunk, Unnumbered outside a numbered hunk
    run,        \* trimmed lengths of the declarations of the current run
    run_viols   \* number of violations appended by the lines of the run

\* No post-patch number: the line is outside every numbered hunk.
Unnumbered == MinusOne

locals ==
    [ last_decl |-> last_decl, in_comment |-> in_comment,
      in_struct |-> in_struct, in_function |-> in_function,
      is_diff |-> is_diff, viols |-> viols, li |-> li ]

driver == << argv, fidx, f, returned, out, pc >>

vars == << argv, fidx, f, returned, out, pc,
           last_decl, in_comment, in_struct, in_function, is_diff, viols, li,
           line, ret, n, path, before, decl_li, newpos, run, run_viols >>

\* check_file_locals with is_diff kept from the scan before, as a module-level
\* flag would be.
check_file_locals_shared ==
    [ last_decl   |-> None,
      in_comment  |-> FALSE,
      in_struct   |-> False,
      in_function |-> False,
      is_diff     |-> is_diff,
      viols       |-> <<>>,
      li          |-> Zero ]

\* The locals as check_file sets them before the loop.
check_file_locals ==
    [ last_decl   |-> None,
      in_comment  |-> FALSE,
      in_struct   |-> False,
      in_function |-> False,
      is_diff     |-> FALSE,
      viols       |-> <<>>,
      li          |-> Zero ]

\* The locals while check_file is not running: they do not exist, and are
\* given fixed values.
Unbound ==
    [ last_decl |-> <<>>, in_comment |-> FALSE, in_struct |-> <<>>,
      in_function |-> <<>>, is_diff |-> FALSE, viols |-> <<>>, li |-> Zero ]

SetLocals(r) ==
    /\ last_decl' = r.last_decl
    /\ in_comment' = r.in_comment
    /\ in_struct' = r.in_struct
    /\ in_function' = r.in_function
    /\ is_diff' = r.is_diff
    /\ viols' = r.viols
    /\ li' = r.li

SetInit(r) ==
    /\ last_decl = r.last_decl
    /\ in_comment = r.in_comment
    /\ in_struct = r.in_struct
    /\ in_function = r.in_function
    /\ is_diff = r.is_diff
    /\ viols = r.viols
    /\ li = r.li

\* The module level, before the first input is scanned.
InitState ==
    /\ fidx = 0
    /\ f = <<>>
    /\ returned = <<>>
    /\ out = <<>>
    /\ pc = "main"
    /\ SetInit(Unbound)
    /\ line = <<>>
    /\ ret = FALSE
    /\ n = 0
    /\ path = "none"
    /\ before = [locals |-> Unbound, decl_li |-> Zero, newpos |-> Unnumbered]
    /\ decl_li = Zero
    /\ newpos = Unnumbered
    /\ run = <<>>
    /\ run_viols = 0

\* len(sys.argv) == 1: the input is standard input.
Init == argv = <<>> /\ InitState

\* Files are named on the command line.
InitRun ==
    /\ argv \in (SeqsUpTo(Files, MaxFiles) \ {<<>>}) \cup RaisingRuns
    /\ InitState

\* The line is a hunk header.
IsHunk(raw) == startswith(raw, <<"@", "@">>)

\* The line is a removed line of a diff.
IsRemoved(raw) == startswith(raw, <<"-">>)

\* The line is a declaration of the run: a tab-indented declaration handed
\* to the detector in a function body.
RunDeclaration(raw, res) ==
    /\ res.path = "detector"
    /\ is_decl(strip(strip_marker(raw)))
    /\ locals.in_function # False

\* The line does not break the run: a removed line, a comment, a
\* preprocessor line, a tab-indented blank line.
RunInert(raw, res) ==
    /\ ~IsHunk(raw)
    /\ \/ res.path \in {"removed", "comment", "comment_line", "preprocessor"}
       \/ res.path = "detector" /\ strip(strip_marker(raw)) = <<>>

\* The history variables after an iteration that read raw and left res.
History(raw, res) ==
    /\ n' = n + 1
    /\ path' = res.path
    /\ before' = [locals |-> locals, decl_li |-> decl_li, newpos |-> newpos]
    /\ decl_li' = IF res.locals.last_decl = None THEN Zero
                  ELSE IF res.path = "detector"
                          /\ is_decl(strip(strip_marker(raw)))
                          /\ locals.in_function # False
                       THEN res.locals.li
                       ELSE decl_li
    /\ newpos' = IF IsHunk(raw)
                 THEN LET m == location_re(partition(From(raw, 3), <<"@", "@">>)[1])
                      IN  IF m = None \/ int_raises(m) THEN Unnumbered ELSE int(m)
                 ELSE IF IsRemoved(raw) \/ newpos = Unnumbered THEN newpos
                 ELSE add1(newpos)
    /\ run' = IF RunDeclaration(raw, res) THEN Append(run, Len(strip(strip_marker(raw))))
              ELSE IF RunInert(raw, res) THEN run
              ELSE <<>>
    /\ run_viols' = IF RunDeclaration(raw, res)
                    THEN run_viols + Len(res.locals.viols) - Len(locals.viols)
                    ELSE IF RunInert(raw, res) THEN run_viols
                    ELSE 0

\* check_file is called on the next input and sets its locals.
check_file_enter ==
    /\ pc = "main"
    /\ fidx < Len(argv) \/ (argv = <<>> /\ returned = <<>>)
    /\ pc' = "loop"
    /\ fidx' = IF argv = <<>> THEN fidx ELSE fidx + 1
    /\ f' = IF argv = <<>> THEN <<>> ELSE readlines(open(argv[fidx + 1]))
    /\ SetLocals(check_file_locals)
    /\ line' = <<>>
    /\ n' = 0
    /\ path' = "none"
    /\ before' = [locals |-> check_file_locals, decl_li |-> Zero, newpos |-> Unnumbered]
    /\ decl_li' = Zero
    /\ newpos' = Unnumbered
    /\ run' = <<>>
    /\ run_viols' = 0
    /\ UNCHANGED << argv, returned, out, ret >>

\* The contents taken for a last line that has no newline: a declaration, a
\* closing brace, a blank line, a marker alone, a hunk header, the start of
\* a comment.
LastLines == { L_long, L_close, L_tab, D_ctx_blank, H_func, L_cmt_open }

\* The lines readlines() can yield on standard input: a line with its
\* newline, or a last, non-empty line without one.
StdinLines == {terminated(c) : c \in Lines} \cup (LastLines \ {<<>>})

\* The line read last had no newline: it was the last line of the input.
AtEOF == n > 0 /\ line[Len(line)] # "\n"

\* The lines the loop can read next: any line of standard input unless the
\* input has ended, the next line of a named file.
NextLines ==
    IF argv = <<>> THEN (IF n < MaxLines /\ ~AtEOF THEN StdinLines ELSE {})
    ELSE (IF f # <<>> THEN {Head(f)} ELSE {})

\* One iteration of the loop of check_file on the next line of the input.
\* When int() raises, nothing catches the ValueError: the script ends with a
\* traceback and prints no report.
check_file_loop(raw) ==
    /\ pc = "loop"
    /\ raw \in NextLines
    /\ LET res == loop_body(locals, raw)
       IN  /\ line' = raw
           /\ SetLocals(res.locals)
           /\ History(raw, res)
           /\ pc' = IF res.path = "raise" THEN "raised" ELSE pc
    /\ f' = IF argv = <<>> THEN f ELSE Tail(f)
    /\ UNCHANGED << argv, fidx, returned, out, ret >>

\* End of input: check_file returns viols and report prints them.
check_file_return ==
    /\ pc = "loop"
    /\ argv = <<>> \/ f = <<>>
    /\ returned' = Append(returned, viols)
    /\ LET printed == report(viols)
       IN  /\ out' = Append(out, printed)
           /\ pc' = IF printed.raised THEN "raised"
                    ELSE IF fidx < Len(argv) THEN "main" ELSE "exit"
    /\ UNCHANGED << argv, fidx, f, last_decl, in_comment, in_struct,
                    in_function, is_diff, viols, li, line, ret, n, path,
                    before, decl_li, newpos, run, run_viols >>

Next ==
    \/ check_file_enter
    \/ \E raw \in NextLines : check_file_loop(raw)
    \/ check_file_return

\* One input read from standard input.
Spec == Init /\ [][Next]_vars

\* The files named on the command line, scanned one after the other.
SpecRun == InitRun /\ [][Next]_vars

(***************************************************************************)
(* is_decl on its own: called on one trimmed line.                         *)
(***************************************************************************)
\* First tokens: every opener, and texts that are no opener.
Tokens ==
    decl_openers \cup
    { <<>>, <<"x">>, <<"f","o","o">>, <<"i","n">>, <<"i","n","t","e","g","e","r">>,
      <<"u","8","8">>, <<"*","p">> }

\* What follows the first token: the end of the line, a space, a tab.
Rests ==
    { <<>>, <<" ","x",";">>, <<"\t","x",";">>, <<" ","i","n","t"," ","x",";">> }

\* The trimmed lines is_decl is called on.
TrimmedLines == { l \in { t \o r : t \in Tokens, r \in Rests } : strip(l) = l }

InitIsDecl ==
    /\ argv = <<>>
    /\ fidx = 0
    /\ f = <<>>
    /\ returned = <<>>
    /\ out = <<>>
    /\ pc = "is_decl"
    /\ SetInit(Unbound)
    /\ line \in TrimmedLines
    /\ ret = FALSE
    /\ n = 0
    /\ path = "none"
    /\ before = [locals |-> Unbound, decl_li |-> Zero, newpos |-> Unnumbered]
    /\ decl_li = Zero
    /\ newpos = Unnumbered
    /\ run = <<>>
    /\ run_viols = 0

is_decl_call ==
    /\ pc = "is_decl"
    /\ ret' = is_decl(line)
    /\ pc' = "is_decl_done"
    /\ UNCHANGED << argv, fidx, f, returned, out, last_decl, in_comment,
                    in_struct, in_function, is_diff, viols, li, line, n, path,
                    before, decl_li, newpos, run, run_viols >>

SpecIsDecl == InitIsDecl /\ [][is_decl_call]_vars

(***************************************************************************)
(* What the properties are stated with: the last line read, as the loop    *)
(* body saw it, and the locals before it was read.                         *)
(***************************************************************************)
\* A line has been read from the input being scanned.
Read == pc = "loop" /\ n > 0

\* The locals before the last line was read.
Pre == before.locals

\* The last line was an added line.
Plus == plus_of(line)

\* The last line without its diff marker, and trimmed.
Content == strip_marker(line)
Trimmed == strip(Content)

\* The last line reached the detector: it was not skipped as a removed line,
\* a comment, a preprocessor line or an unindented line.
Processed == path = "detector"

\* The last line appended the violation <<retained, current, li>>.
Flagged ==
    /\ Pre.last_decl # None
    /\ viols = Append(Pre.viols, <<Pre.last_decl[1], Trimmed, li>>)

\* The last line appended nothing.
NotFlagged == viols = Pre.viols

\* The last line was a declaration longer than the retained one, seen in
\* function context.
Inverted ==
    /\ Processed
    /\ is_decl(Trimmed)
    /\ in_function # False
    /\ Pre.last_decl # None
    /\ Len(Trimmed) > Len(Pre.last_decl[1])

(***************************************************************************)
(* C1. For every line read, a violation <<retained text, current text,     *)
(* li>> is appended exactly when the line is processed by the detector,    *)
(* its trimmed text is a declaration, the tracker is in function context,  *)
(* a declaration is retained, the pair is eligible for comparison and the  *)
(* trimmed text is strictly longer than the retained text; otherwise       *)
(* nothing is appended.                                                    *)
(***************************************************************************)
C1_Condition ==
    /\ Processed
    /\ is_decl(Trimmed)
    /\ in_function # False
    /\ Pre.last_decl # None
    /\ (Plus \/ Pre.last_decl[2] \/ ~is_diff)
    /\ Len(Trimmed) > Len(Pre.last_decl[1])

C1_ViolationExactlyWhen ==
    Read => IF C1_Condition THEN Flagged ELSE NotFlagged

\* A longer declaration has just been flagged.
C1_WitnessFlagged == Read /\ C1_Condition /\ Flagged

(***************************************************************************)
(* C2. Once a hunk header has been seen, an inverted pair of in-function   *)
(* declarations is reported if and only if the current line or the         *)
(* retained line was an added line; without a hunk header it is always     *)
(* reported.                                                               *)
(***************************************************************************)
C2_DiffEligibility ==
    (Read /\ Inverted) =>
        /\ is_diff => (Flagged <=> (Plus \/ Pre.last_decl[2]))
        /\ ~is_diff => Flagged

\* In a diff, an inverted pair of context lines has just gone unreported.
C2_WitnessContextPair ==
    /\ Read /\ Inverted
    /\ is_diff /\ startswith(line, <<" ">>) /\ ~Pre.last_decl[2]
    /\ NotFlagged

(***************************************************************************)
(* C3. After a hunk header line has been processed the Declaration Slot is *)
(* empty, whatever state the header was met in.                            *)
(***************************************************************************)
C3_HeaderEmptiesSlot == (Read /\ IsHunk(line)) => last_decl = None

(***************************************************************************)
(* C4. A removed line leaves every local of the scan as it was before the  *)
(* line, the line counter included.                                        *)
(***************************************************************************)
C4_RemovedLineIsNoOp == (Read /\ IsRemoved(line)) => locals = Pre

\* A removed line that opens a comment has just been read, with a
\* declaration retained in a function.
C4_WitnessRemoved ==
    /\ Read /\ IsRemoved(line)
    /\ contains(line, <<"/", "*">>)
    /\ Pre.last_decl # None /\ Pre.in_function # False /\ Pre.li # Zero

(***************************************************************************)
(* C5. A line read while in_struct is set appends no violation.            *)
(***************************************************************************)
C5_NoViolationInStruct == (Read /\ Pre.in_struct # False) => NotFlagged

\* A tab-indented declaration longer than the retained one has just been
\* read in struct-like context.
C5_WitnessStructBody ==
    /\ Read /\ Pre.in_struct # False
    /\ Processed /\ is_decl(Trimmed)
    /\ Pre.last_decl # None
    /\ Len(Trimmed) > Len(Pre.last_decl[1])

(***************************************************************************)
(* C6. A line strictly inside a block comment (read in comment state, not  *)
(* a hunk header, and not closing the comment) changes nothing but the     *)
(* line counter: no violation, no change of the retained declaration, no   *)
(* change of function/struct context.                                      *)
(***************************************************************************)
\* The last line was read in comment state and did not end it.
C6_Interior ==
    /\ Pre.in_comment
    /\ ~IsHunk(line)
    /\ \/ IsRemoved(line)
       \/ count(Content, <<"*", "/">>) <= count(Content, <<"/", "*">>)

C6_CommentInterior ==
    (Read /\ C6_Interior) =>
        /\ in_comment
        /\ last_decl = Pre.last_decl
        /\ viols = Pre.viols
        /\ in_function = Pre.in_function
        /\ in_struct = Pre.in_struct
        /\ is_diff = Pre.is_diff

\* A declaration longer than the retained one has just been read inside a
\* comment, in a function.
C6_WitnessInterior ==
    /\ Read /\ C6_Interior
    /\ Pre.in_function # False /\ Pre.last_decl # None
    /\ startswith(Content, <<"\t">>) /\ is_decl(Trimmed)
    /\ Len(Trimmed) > Len(Pre.last_decl[1])

(***************************************************************************)
(* C7. is_decl is true exactly for the trimmed lines whose first           *)
(* whitespace-delimited token is an opener.                                *)
(***************************************************************************)
RECURSIVE FirstToken(_)
\* The text before the first whitespace character.
FirstToken(l) ==
    IF l = <<>> \/ Head(l) \in whitespace THEN <<>>
    ELSE <<Head(l)>> \o FirstToken(Tail(l))

C7_FirstTokenDecides ==
    pc = "is_decl_done" => (ret <=> FirstToken(line) \in decl_openers)

(***************************************************************************)
(* C8. The number report prints for a violation is the line number of the  *)
(* retained declaration of the pair.                                       *)
(***************************************************************************)
C8_PrintedLineIsRetained ==
    (Read /\ Len(viols) = Len(Pre.viols) + 1) =>
        report(viols).entries[Len(viols)][1] = before.decl_li

(***************************************************************************)
(* C9. Inside a hunk whose header gave the new-file start N, a line that   *)
(* is not removed is numbered as the post-patch file numbers it: N for the *)
(* first, one more for each later one.                                     *)
(***************************************************************************)
C9_PostPatchNumber ==
    (/\ Read
     /\ before.newpos # Unnumbered
     /\ startswith(line, <<" ">>) \/ startswith(line, <<"+">>)) => li = before.newpos

(***************************************************************************)
(* C10. Scans of the same input return the same violations, wherever in    *)
(* the run they happen.                                                    *)
(***************************************************************************)
C10_SameInputSameResult ==
    \A i, j \in 1..Len(returned) : argv[i] = argv[j] => returned[i] = returned[j]

\* A plain file with a violation has been scanned first and again after a
\* diff.
C10_WitnessRescan ==
    /\ Len(returned) = 3
    /\ argv[1] = "plain_viol.c" /\ argv[2] = "diff_add.patch"
    /\ argv[3] = "plain_viol.c"
    /\ returned[3] # <<>>

(***************************************************************************)
(* C11. After a hunk header whose trailing context contains `:` or `(`     *)
(* the tracker is in function context; after one whose context contains    *)
(* struct, enum or union (and no `:` or `(`) it is in struct-like context. *)
(***************************************************************************)
\* The text after the second `@@` of a hunk header.
HeaderContext(raw) == partition(From(raw, 3), <<"@", "@">>)[3]

\* The header's context names a function.
NamesFunction(raw) ==
    contains(HeaderContext(raw), <<":">>) \/ contains(HeaderContext(raw), <<"(">>)

\* The header's context names a struct, an enum or a union.
NamesStruct(raw) ==
    \/ contains(HeaderContext(raw), <<"s","t","r","u","c","t">>)
    \/ contains(HeaderContext(raw), <<"e","n","u","m">>)
    \/ contains(HeaderContext(raw), <<"u","n","i","o","n">>)

C11_HeaderEntersContext ==
    (Read /\ IsHunk(line)) =>
        /\ NamesFunction(line) => in_function # False
        /\ (NamesStruct(line) /\ ~NamesFunction(line)) => in_struct # False

(***************************************************************************)
(* C12. A blank line (empty after trimming) read in a function body        *)
(* changes neither the retained declaration nor the function context.      *)
(***************************************************************************)
C12_BlankLineIsInert ==
    (Read /\ Trimmed = <<>> /\ Pre.in_function # False) =>
        /\ last_decl = Pre.last_decl
        /\ in_function = Pre.in_function
        /\ viols = Pre.viols

(***************************************************************************)
(* C13. In plain input, the violations appended by the declarations of a   *)
(* run (the declarations handed to the detector in one function body with  *)
(* no run-breaking line between them) are as many as the adjacent pairs    *)
(* of the run whose second line is strictly longer; so the run appends     *)
(* none exactly when its lengths are non-increasing.                       *)
(***************************************************************************)
\* The adjacent pairs of the run whose second line is strictly longer.
RunInversions == {i \in 1..(Len(run) - 1) : run[i + 1] > run[i]}

C13_RunViolations ==
    (pc = "loop" /\ ~is_diff) =>
        /\ run_viols = Cardinality(RunInversions)
        /\ run_viols = 0 <=> \A i \in 1..(Len(run) - 1) : run[i + 1] <= run[i]

\* A run long, short, long has been read: one inversion, after a pair in
\* order.
C13_WitnessRun ==
    /\ pc = "loop" /\ ~is_diff
    /\ Len(run) = 3 /\ run[2] < run[1] /\ run[3] > run[2]
    /\ run_viols = 1

(***************************************************************************)
(* C14. The comment, function and struct state after a hunk header line    *)
(* is decided by the header line alone, never by the state before it: the  *)
(* tracker is in a comment only if the header itself opens one, and in the *)
(* context the header's own text establishes.                              *)
(***************************************************************************)
\* The header line itself opens a block comment.
HeaderOpensComment(raw) == count(raw, <<"/", "*">>) > count(raw, <<"*", "/">>)

C14_HeaderResetsState ==
    (Read /\ IsHunk(line)) =>
        /\ in_comment = HeaderOpensComment(line)
        /\ in_function =
              IF HeaderOpensComment(line) /\ NamesFunction(line)
              THEN strip(HeaderContext(line)) ELSE False
        /\ in_struct =
              IF HeaderOpensComment(line)
              THEN (IF ~NamesFunction(line) /\ NamesStruct(line)
                    THEN strip(HeaderContext(line)) ELSE False)
              ELSE (IF contains(line, <<"{">>) THEN strip(line) ELSE False)

\* A hunk header has just been read inside an open comment in a function
\* body, and has ended both.
C14_WitnessReset ==
    /\ Read /\ IsHunk(line)
    /\ Pre.in_comment /\ Pre.in_function # False
    /\ ~in_comment /\ in_function = False /\ in_struct = False

(***************************************************************************)
(* C15. A hunk header without a match for the range pattern does not       *)
(* re-seed the line counter (the header counts as one more line, like any  *)
(* line that is not removed) and does not stop the scan; it still sets the *)
(* diff flag and resets the comment state.                                 *)
(***************************************************************************)
\* The header has no match for -<old>,<old> +<new>,<new>.
HeaderUnmatched(raw) ==
    location_re(partition(From(raw, 3), <<"@", "@">>)[1]) = None

C15_UnmatchedHeaderKeepsCounter ==
    (Read /\ IsHunk(line) /\ HeaderUnmatched(line)) =>
        /\ li = add1(Pre.li)
        /\ is_diff
        /\ in_comment = HeaderOpensComment(line)
        /\ viols = Pre.viols

\* A header without a range has just been read as a later line of a plain
\* input, in a function body.
C15_WitnessUnmatched ==
    /\ Read /\ IsHunk(line) /\ HeaderUnmatched(line)
    /\ Pre.li # Zero /\ ~Pre.is_diff /\ Pre.in_function # False

(***************************************************************************)
(* C16. After a line that begins with `}` at column zero (after the diff   *)
(* marker is stripped) the tracker is in no function, struct-like or       *)
(* comment context, whatever state it was in before.                       *)
(***************************************************************************)
C16_ClosingBraceEndsAll ==
    (Read /\ startswith(Content, <<"}">>)) =>
        /\ in_function = False
        /\ in_struct = False
        /\ ~in_comment

(***************************************************************************)
(* C17. A line that is not removed, not skipped as a comment or as a       *)
(* preprocessor line, and does not start with a tab appends no violation   *)
(* and is never retained; it leaves the tracker in function context with   *)
(* the Declaration Slot empty if it begins with `{`, in struct-like        *)
(* context if it contains `{` elsewhere, and at top level otherwise, the   *)
(* Declaration Slot untouched in the last two cases.                       *)
(***************************************************************************)
\* The last line was neither removed, nor a comment, nor a preprocessor
\* line, and did not start with a tab.
C17_Unindented ==
    /\ ~IsRemoved(line)
    /\ ~in_comment
    /\ ~startswith(Trimmed, <<"/", "*">>)
    /\ ~startswith(Content, <<"#">>)
    /\ ~startswith(Content, <<"\t">>)

C17_UnindentedLine ==
    (Read /\ C17_Unindented) =>
        /\ viols = Pre.viols
        /\ IF startswith(Content, <<"{">>)
           THEN /\ in_function = strip(Content)
                /\ in_struct = False
                /\ last_decl = None
           ELSE /\ in_function = False
                /\ in_struct = IF contains(Content, <<"{">>) THEN strip(Content)
                               ELSE False
                /\ last_decl = Pre.last_decl

\* An unindented declaration has just been read in a function body with a
\* declaration retained.
C17_WitnessUnindentedDecl ==
    /\ Read /\ C17_Unindented
    /\ is_decl(Trimmed)
    /\ Pre.in_function # False /\ Pre.last_decl # None
    /\ in_function = False /\ last_decl = Pre.last_decl

(***************************************************************************)
(* C18. A declaration is retained only while the tracker is in function    *)
(* context: whenever the function context has ended, the Declaration Slot  *)
(* is empty.                                                               *)
(***************************************************************************)
C18_SlotOnlyInFunction ==
    (pc = "loop" /\ last_decl # None) => in_function # False

(***************************************************************************)
(* C19. The function context and the struct-like context are never both    *)
(* set.                                                                    *)
(***************************************************************************)
C19_ContextsExclusive ==
    ~(in_function # False /\ in_struct # False)

\* A line has just moved the tracker from function context to struct-like
\* context, or a hunk header naming both a struct and a function has been
\* read and kept its function context.
C19_WitnessSwitch ==
    /\ Read
    /\ \/ Pre.in_function # False /\ in_struct # False
       \/ IsHunk(line) /\ NamesStruct(line) /\ NamesFunction(line)
          /\ in_function # False

=============================================================================
